---- MODULE Spec2Model ----
(***************************************************************************)
(* The cache-and-lock coordination protocol of image-resizer:              *)
(*   - Persist (src/unnamed/part_000): set / setnx / get / del / setLock / *)
(*     lock over one mongo collection;                                     *)
(*   - Img (src/lib/image.js): generateVersion / processVersion /          *)
(*     findVersion / save.                                                 *)
(* Every worker is one generateVersion call on an Img of the same          *)
(* artifact, so all workers share one lock key and one version key.        *)
(* A store or blob-store operation is asynchronous: the step that issues   *)
(* it and the step in which the collection answers it are different        *)
(* actions; the answer and the callback that consumes it are one action.   *)
(***************************************************************************)
EXTENDS Integers, Sequences, FiniteSets, TLC

Workers == {"w1", "w2"}
\* the workers are interchangeable: the one named here makes the first call
First == "w1"

\* part_000:18  _interval = _config.interval || 200, with _config = {} at load
interval == 200
\* part_000:19  _waitTimeout = _config.waitTimeout || 10 * _interval
waitTimeout == 10 * interval

\* Date.now() is observed every ClockStep ms and stops after MaxTicks steps
ClockStep == waitTimeout
MaxTicks == 2
MaxTime == MaxTicks * ClockStep
\* store operations that may answer with an error in one behaviour
MaxFaults == 1
\* poll reads of one lock() call that may be unanswered at a time
MaxInFlight == 1

VARIABLES
  now,        \* Date.now()
  faults,     \* store errors so far
  lockDocs,   \* documents {key: lockKey, value: v} of the collection, oldest first
  version,    \* a document {key: versionKey} exists
  pc,         \* position of each generateVersion call in its promise chain
  gen,        \* generateVersion's deferred
  lk,         \* lock()'s deferred
  timer,      \* lock()'s lockTimer and the expiration it closes over
  polls,      \* poll reads issued by lockTimer and not yet answered
  lockVal,    \* setLock's timeout, the value handed to setnx
  delPending, \* persist.del(lockKey) issued by processVersion, not yet answered
  setPending, \* persist.set(versionKey) issued by save, not yet answered
  h,          \* what has happened to each call (history, read by the properties only)
  img         \* the Img the calls are made on, and the keys derived from it

vars == <<now, faults, lockDocs, version, pc, gen, lk, timer, polls, lockVal,
          delPending, setPending, h, img>>

----------------------------------------------------------------------------
(* Values a store callback hands on.                                        *)

Null == [tag |-> "null"]
\* what .catch(function(err) {...}) passes to .done() after a rejection
Undefined == [tag |-> "undefined"]
Value(v) == [tag |-> "value", v |-> v]

\* parseInt(result, 10): NaN for undefined
parseInt(r) == IF r.tag = "value" THEN [tag |-> "num", v |-> r.v] ELSE [tag |-> "NaN"]
\* a < t in JS: false when a is NaN
LessThan(a, t) == a.tag = "num" /\ a.v < t
\* !_result
Falsy(r) == r.tag \in {"null", "undefined"} \/ (r.tag = "value" /\ r.v = 0)

\* Q deferred: the first resolve/reject wins, later ones are ignored
Settle(cur, new) == IF cur = "pending" THEN new ELSE cur

\* get: findOne's callback, resolve(result.value) or resolve(null)
get(docs) == IF docs = <<>> THEN Null ELSE Value(Head(docs))

\* setnx's findOne callback: else if (result) resolve(true) else insert
setnxFound(docs) == docs # <<>>
\* setnx's value when findOne found the key: deferred.resolve(true)
setnxExisting == "true"
\* setnx's value after the insert: deferred.resolve(result[0]), the document
setnxInserted == "document"
\* collection.insert({key, value})
insert(docs, v) == Append(docs, v)
\* collection.remove({key: {$in: keys}})
remove(docs) == <<>>

\* setLock: timeout = Date.now() + _waitTimeout
setLockValue(t) == t + waitTimeout

\* InitialOutcome with the test for null left out
InitialOutcome_NoNullTest(result, t) ==
  IF LessThan(parseInt(result), t) THEN "lock expired" ELSE "poll"

\* InitialOutcome with the expiry comparison turned round
InitialOutcome_Reversed(result, t) ==
  IF result.tag # "null"
    THEN IF parseInt(result).tag = "num" /\ parseInt(result).v > t
           THEN "lock expired" ELSE "poll"
    ELSE "no lock"

\* lock(), the branch taken on the initial read
InitialOutcome(result, t) ==
  IF result.tag # "null"
    THEN IF LessThan(parseInt(result), t) THEN "lock expired" ELSE "poll"
    ELSE "no lock"

\* PollOutcome with the deadline test left out
PollOutcome_NoDeadline(result, t, expiration) ==
  IF Falsy(result) THEN "lock absent" ELSE "continue"

\* lock(), the branch taken on a poll read
PollOutcome(result, t, expiration) ==
  IF Falsy(result) THEN "lock absent"
  ELSE IF t > expiration THEN "lock timeout" ELSE "continue"

\* findVersion: deferred.resolve(res !== null, _this)
findVersionValue(res) == IF res.tag # "null" THEN "resolved true" ELSE "resolved false"

----------------------------------------------------------------------------
(* Key derivation. A key is the sequence of the pieces the code concatenates; *)
(* this.options is the sequence of its own properties in insertion order.     *)

\* image.js:70  this.redisNamespace = process.env.REDIS_NAMESPACE || 'img-server'
redisNamespace == "img-server"
\* image.js:67  this.env = (process.env.NODE_ENV || 'development')[0]
NodeEnvs == {<<"d", "e", "v", "e", "l", "o", "p", "m", "e", "n", "t">>,
             <<"p", "r", "o", "d", "u", "c", "t", "i", "o", "n">>}
env(nodeEnv) == nodeEnv[1]
\* image.js:97  this.uuid = md5('' + this.dir + this.file), a hex digest
Uuids == {"5d41402a"}

\* the properties the request parser may put on options
Actions == {<<"r", "e", "s", "i", "z", "e">>, <<"c", "r", "o", "p">>}
Props ==
  {[name |-> "action", value |-> a] : a \in Actions}
    \cup {[name |-> "width", value |-> 100], [name |-> "height", value |-> 50],
          [name |-> "cropX", value |-> 10], [name |-> "cropY", value |-> 20]}
PropNames == {p.name : p \in Props}
OptionSeqs ==
  UNION {{o \in [1..n -> Props] :
            \A j, k \in 1..n : j # k => o[j].name # o[k].name} :
         n \in 0..Cardinality(PropNames)}

\* options.hasOwnProperty(name)
hasOwnProperty(o, name) == \E k \in DOMAIN o : o[k].name = name
\* options[name]
property(o, name) == o[CHOOSE k \in DOMAIN o : o[k].name = name].value

\* '_w' + this.options.width, when options has the property
optionPiece(o, tag, name) ==
  IF hasOwnProperty(o, name) THEN <<tag, property(o, name)>> ELSE <<>>

\* _optionsString appending the properties in the order options lists them
_optionsString_InsertionOrder(i) ==
  LET tagOf(nm) == CASE nm = "width" -> "_w" [] nm = "height" -> "_h"
                     [] nm = "cropX" -> "_cx" [] OTHER -> "_cy"
      rest[k \in 0..Len(i.options)] ==
        IF k = 0 THEN <<>>
        ELSE rest[k - 1] \o
             (IF i.options[k].name = "action" THEN <<>>
              ELSE <<tagOf(i.options[k].name), i.options[k].value>>)
  IN IF i.json \/ ~hasOwnProperty(i.options, "action") THEN <<>>
     ELSE <<"_a", property(i.options, "action")[1]>> \o rest[Len(i.options)]

\* Img.prototype._optionsString
_optionsString(i) ==
  IF i.json THEN <<>>
  ELSE IF ~hasOwnProperty(i.options, "action") THEN <<>>
  ELSE <<"_a", property(i.options, "action")[1]>>
         \o optionPiece(i.options, "_w", "width")
         \o optionPiece(i.options, "_h", "height")
         \o optionPiece(i.options, "_cx", "cropX")
         \o optionPiece(i.options, "_cy", "cropY")

\* Img.prototype._key
_key(i) == <<redisNamespace, ":", env(i.nodeEnv), ":", i.uuid>>

\* Img.prototype._versionKey
_versionKey(i) ==
  IF ~hasOwnProperty(i.options, "action") THEN _key(i)
  ELSE _key(i) \o _optionsString(i)

\* Img.prototype._lockKey
_lockKey(i) ==
  LET key == <<redisNamespace, ":lock:", env(i.nodeEnv), ":", i.uuid>>
  IN IF ~hasOwnProperty(i.options, "action") THEN key
     ELSE key \o _optionsString(i)

\* a key not derived yet
NoKey == <<>>
\* new Img(request, logger)
Img(json, options, nodeEnv, uuid) ==
  [json |-> json, options |-> options, nodeEnv |-> nodeEnv, uuid |-> uuid,
   versionKey |-> NoKey, lockKey |-> NoKey]
Imgs ==
  {Img(j, o, e, u) : j \in BOOLEAN, o \in OptionSeqs, e \in NodeEnvs, u \in Uuids}
\* the artifact the generateVersion calls are made for
TheImg ==
  Img(FALSE, <<[name |-> "action", value |-> <<"r", "e", "s", "i", "z", "e">>],
              [name |-> "width", value |-> 100]>>,
      <<"d", "e", "v", "e", "l", "o", "p", "m", "e", "n", "t">>, "5d41402a")

----------------------------------------------------------------------------
NoTimer == [on |-> FALSE, nextFire |-> 0, expiration |-> 0]

NoHistory ==
  [concurrent |-> FALSE, afterBuild |-> FALSE, initRead |-> "none",
   timerStarted |-> FALSE, readAfterSettle |-> FALSE,
   pollAbsent |-> FALSE, absentAfterBuild |-> FALSE, won |-> FALSE,
   fetched |-> FALSE, transformed |-> FALSE, uploaded |-> FALSE,
   failed |-> "no", versionRead |-> "none", loopStart |-> 0,
   setnxResult |-> "none", renewed |-> "none", fetch |-> "none",
   docIn |-> FALSE, deletedOthers |-> FALSE]

\* the lock key holds an expiry later than t
Renewed(docs, t) == IF docs # <<>> /\ Head(docs) > t THEN "yes" ELSE "no"
\* processVersion has been entered and its chain has not ended
Building(w) == pc[w] \in {"getFile", "manipulate", "upload"}

\* what the collection held for the lock key when a read was answered at t,
\* told from the documents alone
Held(docs, t) ==
  IF docs = <<>> THEN "absent" ELSE IF Head(docs) < t THEN "expired" ELSE "held"

Running(w) == pc[w] \notin {"idle", "done", "thrown"}
Built(w) == gen[w] = "resolved img"

Init ==
  /\ now = 0
  /\ faults = 0
  /\ lockDocs = <<>>
  /\ version = FALSE
  /\ pc = [w \in Workers |-> "idle"]
  /\ gen = [w \in Workers |-> "pending"]
  /\ lk = [w \in Workers |-> "pending"]
  /\ timer = [w \in Workers |-> NoTimer]
  /\ polls = [w \in Workers |-> 0]
  /\ lockVal = [w \in Workers |-> 0]
  /\ delPending = [w \in Workers |-> FALSE]
  /\ setPending = [w \in Workers |-> FALSE]
  /\ h = [w \in Workers |-> NoHistory]
  /\ img = TheImg

\* a store operation answers with an error
Fault(err) ==
  IF err THEN faults < MaxFaults /\ faults' = faults + 1 ELSE faults' = faults

\* Date.now() advances
Tick ==
  /\ now < MaxTime
  /\ now' = now + ClockStep
  /\ UNCHANGED <<img, faults, lockDocs, version, pc, gen, lk, timer, polls, lockVal,
                 delPending, setPending, h>>

\* generateVersion: persist.lock(this._lockKey()) issues the initial get
generateVersion(w) ==
  /\ pc[w] = "idle"
  /\ (w # First => pc[First] # "idle")
  /\ pc' = [pc EXCEPT ![w] = "lock_get"]
  /\ h' = [h EXCEPT ![w].concurrent = \E v \in Workers \ {w} : Running(v),
                    ![w].afterBuild = version /\ \E v \in Workers \ {w} : Built(v)]
  /\ UNCHANGED <<img, now, faults, lockDocs, version, gen, lk, timer, polls, lockVal,
                 delPending, setPending>>

\* what generateVersion does once lock()'s promise settles as lk2:
\* .then -> findVersion(deferred) issues get(versionKey);
\* .catch -> setLock(lockKey) computes the timeout and issues setnx's findOne
AfterLock(w, lk2) ==
  IF lk[w] = "pending" /\ lk2 # "pending"
    THEN IF lk2 = "lock absent"
           THEN /\ pc' = [pc EXCEPT ![w] = "findVersion_get"]
                /\ lockVal' = lockVal
           ELSE /\ pc' = [pc EXCEPT ![w] = "setnx_findOne"]
                /\ lockVal' = [lockVal EXCEPT ![w] = setLockValue(now)]
    ELSE /\ pc' = [pc EXCEPT ![w] = IF pc[w] = "lock_get" THEN "lock_wait" ELSE pc[w]]
         /\ lockVal' = lockVal

\* lock: the initial instance.get(key).catch(...).done(function(result) {...})
lock_get(w, err) ==
  /\ pc[w] = "lock_get"
  /\ Fault(err)
  /\ LET result == IF err THEN Undefined ELSE get(lockDocs)
         lk1 == IF err THEN Settle(lk[w], "store error") ELSE lk[w]
         out == InitialOutcome(result, now)
         lk2 == IF out = "poll" THEN lk1 ELSE Settle(lk1, out)
     IN /\ lk' = [lk EXCEPT ![w] = lk2]
        /\ timer' = [timer EXCEPT ![w] =
             IF out = "poll"
               THEN [on |-> TRUE, nextFire |-> now + interval,
                     expiration |-> now + waitTimeout]
               ELSE @]
        /\ AfterLock(w, lk2)
        /\ h' = [h EXCEPT ![w].initRead = IF err THEN "error" ELSE Held(lockDocs, now),
                          ![w].timerStarted = (out = "poll"),
                          ![w].loopStart = IF out = "poll" THEN now ELSE 0]
  /\ UNCHANGED <<img, now, lockDocs, version, gen, polls, delPending, setPending>>

\* lock: lockTimer fires and issues instance.get(key)
lock_tick(w) ==
  /\ timer[w].on
  /\ now >= timer[w].nextFire
  /\ polls[w] < MaxInFlight
  /\ polls' = [polls EXCEPT ![w] = @ + 1]
  /\ timer' = [timer EXCEPT ![w].nextFire = now + interval]
  /\ h' = [h EXCEPT ![w].readAfterSettle = @ \/ lk[w] # "pending"]
  /\ UNCHANGED <<img, now, faults, lockDocs, version, pc, gen, lk, lockVal,
                 delPending, setPending>>

\* lock: a poll read answers, .catch(...).done(function(_result) {...})
lock_poll(w, err) ==
  /\ polls[w] > 0
  /\ Fault(err)
  /\ LET result == IF err THEN Undefined ELSE get(lockDocs)
         lk1 == IF err THEN Settle(lk[w], "lock error") ELSE lk[w]
         out == PollOutcome(result, now, timer[w].expiration)
         lk2 == IF out = "continue" THEN lk1 ELSE Settle(lk1, out)
     IN /\ lk' = [lk EXCEPT ![w] = lk2]
        /\ timer' = [timer EXCEPT ![w] =
             IF err \/ out # "continue" THEN NoTimer ELSE @]
        /\ AfterLock(w, lk2)
        /\ h' = [h EXCEPT ![w].pollAbsent =
                             @ \/ (timer[w].on /\ ~err /\ Held(lockDocs, now) = "absent"),
                          ![w].absentAfterBuild =
                             @ \/ (lk[w] = "pending" /\ lk2 = "lock absent"
                                   /\ \E v \in Workers \ {w} : Built(v))]
  /\ polls' = [polls EXCEPT ![w] = @ - 1]
  /\ UNCHANGED <<img, now, lockDocs, version, gen, delPending, setPending>>

\* setnx: _store.findOne's callback; setLock's promise feeds
\* generateVersion's .done(function() { processVersion(deferred) }), which
\* ignores the value and rethrows a rejection (the chain ends, nothing settles
\* generateVersion's deferred); processVersion issues s3.getFile
setnx_findOne(w, err) ==
  /\ pc[w] = "setnx_findOne"
  /\ Fault(err)
  /\ pc' = [pc EXCEPT ![w] =
       IF err THEN "thrown"
       ELSE IF setnxFound(lockDocs) THEN "getFile" ELSE "setnx_insert"]
  /\ h' = [h EXCEPT ![w].fetched = ~err /\ setnxFound(lockDocs),
                    ![w].setnxResult =
                       IF ~err /\ setnxFound(lockDocs) THEN setnxExisting ELSE @,
                    ![w].renewed =
                       IF ~err /\ setnxFound(lockDocs)
                         THEN Renewed(lockDocs, lockVal[w] - waitTimeout) ELSE @,
                    ![w].failed = IF err THEN "setLock" ELSE @]
  /\ lockVal' = [lockVal EXCEPT ![w] = IF err \/ setnxFound(lockDocs) THEN 0 ELSE @]
  /\ UNCHANGED <<img, now, lockDocs, version, gen, lk, timer, polls,
                 delPending, setPending>>

\* setnx: insert's callback, resolve(result[0]); then as above
setnx_insert(w, err) ==
  /\ pc[w] = "setnx_insert"
  /\ Fault(err)
  /\ lockDocs' = IF err THEN lockDocs ELSE insert(lockDocs, lockVal[w])
  /\ pc' = [pc EXCEPT ![w] = IF err THEN "thrown" ELSE "getFile"]
  /\ h' = [h EXCEPT ![w].won = ~err, ![w].fetched = ~err,
                    ![w].setnxResult = IF err THEN @ ELSE setnxInserted,
                    ![w].renewed =
                       IF err THEN @
                       ELSE Renewed(insert(lockDocs, lockVal[w]), lockVal[w] - waitTimeout),
                    ![w].docIn = ~err,
                    ![w].failed = IF err THEN "setLock" ELSE @]
  /\ lockVal' = [lockVal EXCEPT ![w] = 0]
  /\ UNCHANGED <<img, now, version, gen, lk, timer, polls, delPending, setPending>>

\* processVersion: s3.getFile settles;
\*   .catch    deferred.reject(err), and the chain goes on with undefined
\*   .finally  persist.del(lockKey) is issued and not waited for
\*   .then     res.statusCode throws on undefined; a status other than 200
\*             builds an Error that is not thrown; manipulate(_this, res)
FetchOutcomes == {"reject", "200", "non200"}
processVersion_getFile(w, out) ==
  /\ pc[w] = "getFile"
  /\ gen' = [gen EXCEPT ![w] = IF out = "reject" THEN Settle(@, "rejected") ELSE @]
  /\ delPending' = [delPending EXCEPT ![w] = TRUE]
  /\ pc' = [pc EXCEPT ![w] = IF out = "reject" THEN "thrown" ELSE "manipulate"]
  /\ h' = [h EXCEPT ![w].transformed = (out # "reject"),
                    ![w].fetch = out,
                    ![w].failed = IF out = "reject" THEN "fetch" ELSE @]
  /\ UNCHANGED <<img, now, faults, lockDocs, version, lk, timer, polls, lockVal,
                 setPending>>

\* del: _store.remove's callback; nothing listens to del's promise
del_remove(w, err) ==
  /\ delPending[w]
  /\ Fault(err)
  /\ lockDocs' = IF err THEN lockDocs ELSE remove(lockDocs)
  /\ delPending' = [delPending EXCEPT ![w] = FALSE]
  /\ h' = [v \in Workers |->
            IF err THEN h[v]
            ELSE [h[v] EXCEPT
                    !.docIn = FALSE,
                    !.deletedOthers =
                       @ \/ (v = w /\ \E u \in Workers \ {w} :
                                         h[u].docIn /\ Building(u))]]
  /\ UNCHANGED <<img, now, version, pc, gen, lk, timer, polls, lockVal, setPending>>

\* processVersion: manipulate settles; .then issues s3.upload, a rejection
\* skips to .done, which rethrows; res, the answer of s3.getFile, is dropped
manipulate_done(w, ok) ==
  /\ pc[w] = "manipulate"
  /\ pc' = [pc EXCEPT ![w] = IF ok THEN "upload" ELSE "thrown"]
  /\ h' = [h EXCEPT ![w].uploaded = ok,
                    ![w].fetch = "none",
                    ![w].failed = IF ok THEN @ ELSE "transform"]
  /\ UNCHANGED <<img, now, faults, lockDocs, version, gen, lk, timer, polls, lockVal,
                 delPending, setPending>>

\* processVersion: s3.upload settles, .done(function(res) {...});
\* save() issues persist.set(versionKey) and is not waited for
UploadOutcomes == {"reject", "falsy", "ok"}
upload_done(w, out) ==
  /\ pc[w] = "upload"
  /\ pc' = [pc EXCEPT ![w] = IF out = "reject" THEN "thrown" ELSE "done"]
  /\ gen' = [gen EXCEPT ![w] =
       CASE out = "ok" -> Settle(@, "resolved img")
         [] out = "falsy" -> Settle(@, "rejected")
         [] OTHER -> @]
  /\ setPending' = [setPending EXCEPT ![w] = (out = "ok")]
  /\ h' = [h EXCEPT ![w].failed = IF out = "ok" THEN @ ELSE "upload"]
  /\ UNCHANGED <<img, now, faults, lockDocs, version, lk, timer, polls, lockVal,
                 delPending>>

\* set: _store.update(..., {upsert: true})'s callback; nothing listens to
\* save's promise
save_update(w, err) ==
  /\ setPending[w]
  /\ Fault(err)
  /\ version' = IF err THEN version ELSE TRUE
  /\ setPending' = [setPending EXCEPT ![w] = FALSE]
  /\ UNCHANGED <<img, now, lockDocs, pc, gen, lk, timer, polls, lockVal, delPending, h>>

\* findVersion: persist.get(versionKey).catch(reject).done(resolve(res !== null))
findVersion_get(w, err) ==
  /\ pc[w] = "findVersion_get"
  /\ Fault(err)
  /\ LET res == IF err THEN Undefined
                ELSE IF version THEN Value(1) ELSE Null
         g1 == IF err THEN Settle(gen[w], "rejected") ELSE gen[w]
     IN /\ gen' = [gen EXCEPT ![w] = Settle(g1, findVersionValue(res))]
        /\ h' = [h EXCEPT ![w].versionRead =
                             IF err THEN "error" ELSE IF version THEN "present" ELSE "absent"]
  /\ pc' = [pc EXCEPT ![w] = "done"]
  /\ UNCHANGED <<img, now, lockDocs, version, lk, timer, polls, lockVal,
                 delPending, setPending>>

Next ==
  \/ Tick
  \/ \E w \in Workers : generateVersion(w)
  \/ \E w \in Workers, err \in BOOLEAN : lock_get(w, err)
  \/ \E w \in Workers : lock_tick(w)
  \/ \E w \in Workers, err \in BOOLEAN : lock_poll(w, err)
  \/ \E w \in Workers, err \in BOOLEAN : setnx_findOne(w, err)
  \/ \E w \in Workers, err \in BOOLEAN : setnx_insert(w, err)
  \/ \E w \in Workers, out \in FetchOutcomes : processVersion_getFile(w, out)
  \/ \E w \in Workers, err \in BOOLEAN : del_remove(w, err)
  \/ \E w \in Workers, ok \in BOOLEAN : manipulate_done(w, ok)
  \/ \E w \in Workers, out \in UploadOutcomes : upload_done(w, out)
  \/ \E w \in Workers, err \in BOOLEAN : save_update(w, err)
  \/ \E w \in Workers, err \in BOOLEAN : findVersion_get(w, err)

Spec == Init /\ [][Next]_vars

\* Key derivation alone: any Img the constructor can build, no call in progress
protocolVars == <<now, faults, lockDocs, version, pc, gen, lk, timer, polls,
                  lockVal, delPending, setPending, h>>

KeyInit ==
  /\ now = 0
  /\ faults = 0
  /\ lockDocs = <<>>
  /\ version = FALSE
  /\ pc = [w \in Workers |-> "idle"]
  /\ gen = [w \in Workers |-> "pending"]
  /\ lk = [w \in Workers |-> "pending"]
  /\ timer = [w \in Workers |-> NoTimer]
  /\ polls = [w \in Workers |-> 0]
  /\ lockVal = [w \in Workers |-> 0]
  /\ delPending = [w \in Workers |-> FALSE]
  /\ setPending = [w \in Workers |-> FALSE]
  /\ h = [w \in Workers |-> NoHistory]
  /\ img \in Imgs

versionKey_call ==
  /\ img.versionKey = NoKey
  /\ img' = [img EXCEPT !.versionKey = _versionKey(img)]
  /\ UNCHANGED protocolVars

lockKey_call ==
  /\ img.lockKey = NoKey
  /\ img' = [img EXCEPT !.lockKey = _lockKey(img)]
  /\ UNCHANGED protocolVars

KeyNext == versionKey_call \/ lockKey_call

KeySpec == KeyInit /\ [][KeyNext]_vars

\* The store answers every read of lock() and the clock advances: the event
\* loop runs a due lockTimer callback and the callback of an answered get.
LiveSpec ==
  /\ Spec
  /\ WF_vars(Tick)
  /\ \A w \in Workers :
       /\ WF_vars(lock_tick(w))
       /\ WF_vars(\E err \in BOOLEAN : lock_poll(w, err))

----------------------------------------------------------------------------
(* Properties.                                                              *)

Ended(w) == pc[w] \in {"thrown", "done"}

\* C1: of two concurrent generateVersion calls on the same artifact (lock and
\* version absent at the start, no store error) at most one runs the build; the
\* other never invokes the transform.
C1_SingleFlight ==
  \A a, b \in Workers :
    (a # b /\ h[b].concurrent /\ faults = 0)
      => ~(h[a].transformed /\ h[b].transformed)

\* C2: setnx is an atomic check-and-insert: whatever the interleaving of the
\* setnx calls on a key, the collection never holds more than one document for
\* the key.
C2_SetnxAtomic == Len(lockDocs) <= 1

\* C3: a generateVersion call made after a successful build of the same key
\* (version record written, never deleted; no store error) does not invoke the
\* fetch again.
C3_CacheHit ==
  \A w \in Workers : (h[w].afterBuild /\ faults = 0) => ~h[w].fetched

\* C4: when the lock holder's build has failed (fetch, transform or upload) and
\* its attempt has ended, the lock key is absent from the store; no other call
\* has been made that could have set it again, and no store operation failed.
C4_LockClearedOnFailure ==
  \A w \in Workers :
    (/\ h[w].won
     /\ h[w].failed \in {"fetch", "transform", "upload"}
     /\ Ended(w)
     /\ faults = 0
     /\ \A v \in Workers \ {w} : pc[v] = "idle")
      => lockDocs = <<>>

\* C5: a generateVersion call whose promise chain has ended has settled its
\* deferred (resolved or rejected), whatever its collaborators answered.
C5_AlwaysSettles == \A w \in Workers : Ended(w) => gen[w] # "pending"

\* C6: a waiter whose lock() resolved with 'lock absent' after another worker's
\* build had resolved successfully does not read the version record as absent
\* (no store operation failed).
C6_WaiterFindsVersion ==
  \A w \in Workers :
    (h[w].absentAfterBuild /\ faults = 0) => h[w].versionRead # "absent"

\* C7: once lock()'s promise has settled its timer is cancelled and no poll
\* read is issued for it any more.
C7_TimerCancelled ==
  \A w \in Workers :
    lk[w] # "pending" => (~timer[w].on /\ ~h[w].readAfterSettle)

\* C8: lock() whose initial read finds the key absent rejects with 'no lock' in
\* the step of that read, never starts lockTimer and issues no poll read.
C8_NoLockImmediate ==
  \A w \in Workers :
    h[w].initRead = "absent"
      => /\ lk[w] = "no lock"
         /\ pc[w] # "lock_wait"
         /\ ~h[w].timerStarted /\ ~timer[w].on /\ polls[w] = 0
C8_Witness ==
  \E w \in Workers : h[w].initRead = "absent" /\ pc[w] = "setnx_findOne"

\* C9: lock() whose initial read finds a stored expiry earlier than the clock
\* rejects with 'lock expired' in the step of that read and never polls.
C9_ExpiredImmediate ==
  \A w \in Workers :
    h[w].initRead = "expired"
      => /\ lk[w] = "lock expired"
         /\ pc[w] # "lock_wait"
         /\ ~h[w].timerStarted /\ ~timer[w].on /\ polls[w] = 0
C9_Witness ==
  \E w \in Workers : h[w].initRead = "expired" /\ pc[w] = "setnx_findOne"

\* C10: a poll read that finds the key absent while lockTimer is running
\* resolves lock() with 'lock absent'.
C10_PollAbsentResolves ==
  \A w \in Workers : h[w].pollAbsent => lk[w] = "lock absent"

\* C11: the wait deadline is the clock at loop start plus waitTimeout and is
\* captured once; a poll read that finds the key still present after the
\* deadline rejects lock() with 'lock timeout' and stops the timer; and, the
\* store answering every read and the clock advancing, every running lockTimer
\* whose deadline lies within the clock's horizon stops with lock() settled.
C11_Deadline(w) ==
  /\ (pc[w] = "lock_get" /\ timer'[w].on)
       => timer'[w].expiration = now + waitTimeout
  /\ (timer[w].on /\ timer'[w].on) => timer'[w].expiration = timer[w].expiration
  /\ (/\ lk[w] = "pending" /\ timer[w].on
      /\ polls'[w] < polls[w] /\ faults' = faults
      /\ lockDocs # <<>> /\ now > h[w].loopStart + waitTimeout)
       => (lk'[w] = "lock timeout" /\ ~timer'[w].on)
C12_SetnxResult ==
  \A w \in Workers :
    h[w].setnxResult # "none" => (h[w].setnxResult = "true" <=> h[w].won)

\* C14: a caller whose setLock found the lock key existing (its setnx did not
\* insert) never invokes the fetch, the transform or the upload.
C14_LoserDoesNotBuild ==
  \A w \in Workers :
    h[w].setnxResult = setnxExisting
      => (~h[w].fetched /\ ~h[w].transformed /\ ~h[w].uploaded)

\* C15: a builder whose build has not failed issues the delete of the lock key
\* only after its transform and upload have finished and its version record
\* has been written.
C15_DeleteLast ==
  \A w \in Workers :
    (h[w].won /\ h[w].failed = "no" /\ h[w].fetch = "200"
       /\ (delPending[w] \/ ~h[w].docIn))
      => (pc[w] = "done" /\ ~setPending[w])

\* C16: when the source fetch has failed (rejected, or answered with a status
\* other than 200) the transform and the upload are never invoked, no version
\* record is written, and generateVersion is rejected.
C16_FetchFailureStops ==
  \A w \in Workers :
    h[w].fetch \in {"reject", "non200"}
      => /\ ~h[w].transformed /\ ~h[w].uploaded /\ ~setPending[w]
         /\ gen[w] = "rejected"

\* C17: a version record exists only if some build's upload succeeded, and a
\* build whose upload failed or gave no success result has rejected and written
\* no version record.
C17_VersionAfterUpload ==
  /\ (version \/ \E w \in Workers : setPending[w])
       => \E w \in Workers :
            h[w].fetched /\ h[w].transformed /\ h[w].uploaded /\ Built(w)
  /\ \A w \in Workers :
       h[w].failed = "upload" => (gen[w] = "rejected" /\ ~setPending[w])

\* C18: a generateVersion call that has resolved (as the builder or after
\* 'lock absent') has a version record in the store; the version key is never
\* deleted here, so the record present at the resolution is still present.
C18_ResolvedHasVersion ==
  \A w \in Workers :
    gen[w] \in {"resolved img", "resolved true", "resolved false"} => version

\* C19: no worker deletes a lock entry inserted by another worker whose build
\* is still in progress.
C19_DeleteOwnLockOnly == \A w \in Workers : ~h[w].deletedOthers

\* C20: once setLock has completed for a call whose lock() rejected with
\* 'lock expired', the lock key holds an expiry later than the clock at that
\* setLock.
C20_LeaseRenewed ==
  \A w \in Workers : lk[w] = "lock expired" => h[w].renewed # "no"

\* The key formats as the specification writes them, from the set of
\* (option, value) pairs alone.
Pairs(o) == {o[k] : k \in DOMAIN o}
Given(S, name) == \E p \in S : p.name = name
ValueOf(S, name) == (CHOOSE p \in S : p.name = name).value
Field(S, tag, name) == IF Given(S, name) THEN <<tag, ValueOf(S, name)>> ELSE <<>>
Suffix(S) ==
  <<"_a", Head(ValueOf(S, "action"))>> \o Field(S, "_w", "width")
    \o Field(S, "_h", "height") \o Field(S, "_cx", "cropX")
    \o Field(S, "_cy", "cropY")
BaseKey == <<"img-server", ":", Head(img.nodeEnv), ":", img.uuid>>
LockBaseKey == <<"img-server", ":lock:", Head(img.nodeEnv), ":", img.uuid>>

\* C13 as stated: the version key is the base key when no action is requested
\* and otherwise the base key followed by the options suffix; the lock key
\* likewise; both are fixed by the set of (option, value) pairs, whatever the
\* insertion order.
C13_KeysAsStated ==
  LET S == Pairs(img.options)
      suffix == IF Given(S, "action") THEN Suffix(S) ELSE <<>>
  IN /\ img.versionKey # NoKey => img.versionKey = BaseKey \o suffix
     /\ img.lockKey # NoKey => img.lockKey = LockBaseKey \o suffix

\* C13 as amended: as above, except that a metadata-only (json) request gets
\* no suffix even when an action is requested.
C13_Keys ==
  LET S == Pairs(img.options)
      suffix == IF Given(S, "action") /\ ~img.json THEN Suffix(S) ELSE <<>>
  IN /\ img.versionKey # NoKey => img.versionKey = BaseKey \o suffix
     /\ img.lockKey # NoKey => img.lockKey = LockBaseKey \o suffix
C13_Witness ==
  /\ ~img.json
  /\ Len(img.options) = 3
  /\ img.options[1].name = "height" /\ img.options[2].name = "width"
  /\ img.options[3].name = "action"
  /\ img.versionKey = BaseKey \o <<"_a", "r", "_w", 100, "_h", 50>>
  /\ img.lockKey = LockBaseKey \o <<"_a", "r", "_w", 100, "_h", 50>>

====
